---- MODULE Spec2Model ----
(***************************************************************************)
(* Hybrid Waymo Estimator (script.js): camera sampling passes, the form    *)
(* submit handler, the Monte Carlo run and its summary statistics.         *)
(*                                                                         *)
(* A JavaScript number is a record [k, n, d]:                              *)
(*   k = "fin"  the rational n/d in lowest terms, d > 0                    *)
(*   k = "inf"  +Infinity (n = 1) or -Infinity (n = -1)                    *)
(*   k = "nan"  NaN                                                        *)
(*   k = "null" the value null (only lastSensorCitywideEstimate holds it)  *)
(* Arithmetic is exact: rounding and overflow of IEEE doubles are not      *)
(* modelled.                                                               *)
(***************************************************************************)
EXTENDS Integers, Sequences, FiniteSets, TLC

VARIABLES
    cameras,                     \* the loaded camera list (camera ids)
    camerasLoaded,               \* loadCameras() has settled
    sensorSampling,              \* the flag toggled by the button
    intervalActive,              \* sensorIntervalId names a live timer
    coverageFraction,            \* value of the coverageFraction input
    passes,                      \* sampleAllCameras() calls awaiting an image
    lastObservedDetections,
    lastObservedCameras,
    lastSensorCitywideEstimate,
    form,                        \* the ten form inputs, as Number(value)
    lastRun,                     \* object returned by the last runMonteCarlo
    textResults,                 \* text of the eight result elements
    histogramChart,              \* the chart on the canvas
    statusMessage,               \* text of #statusMessage
    call                         \* a call of a pure function: arguments, result

vars == <<cameras, camerasLoaded, sensorSampling, intervalActive,
          coverageFraction, passes, lastObservedDetections,
          lastObservedCameras, lastSensorCitywideEstimate, form, lastRun,
          textResults, histogramChart, statusMessage, call>>

sensorVars == <<cameras, camerasLoaded, sensorSampling, intervalActive,
                coverageFraction, passes, lastObservedDetections,
                lastObservedCameras, lastSensorCitywideEstimate>>

simVars == <<form, lastRun, textResults, histogramChart, statusMessage>>

resultVars == <<lastRun, textResults, histogramChart>>

-----------------------------------------------------------------------------
(* JavaScript numbers *)

Abs(a) == IF a < 0 THEN -a ELSE a

Sign(a) == IF a < 0 THEN -1 ELSE IF a > 0 THEN 1 ELSE 0

RECURSIVE Gcd(_, _)
Gcd(a, b) == IF b = 0 THEN a ELSE Gcd(b, a % b)

Rat(n, d) ==
    LET g == Gcd(Abs(n), Abs(d))
        s == IF d < 0 THEN -1 ELSE 1
    IN  [k |-> "fin", n |-> s * (n \div g), d |-> s * (d \div g)]

Num(i) == [k |-> "fin", n |-> i, d |-> 1]

NaN == [k |-> "nan", n |-> 0, d |-> 1]

Null == [k |-> "null", n |-> 0, d |-> 1]

Inf(s) == [k |-> "inf", n |-> s, d |-> 1]

IsFinite(v) == v.k = "fin"

IsNaN(v) == v.k = "nan"

\* operands of the arithmetic below are never null
Neg(a) ==
    IF a.k = "nan" THEN NaN ELSE [a EXCEPT !.n = -a.n]

Add(a, b) ==
    IF a.k = "nan" \/ b.k = "nan" THEN NaN
    ELSE IF a.k = "inf" /\ b.k = "inf"
         THEN (IF a.n = b.n THEN a ELSE NaN)
    ELSE IF a.k = "inf" THEN a
    ELSE IF b.k = "inf" THEN b
    ELSE Rat(a.n * b.d + b.n * a.d, a.d * b.d)

Sub(a, b) == Add(a, Neg(b))

Mul(a, b) ==
    IF a.k = "nan" \/ b.k = "nan" THEN NaN
    ELSE IF a.k = "inf" \/ b.k = "inf"
         THEN (IF a.n = 0 \/ b.n = 0 THEN NaN ELSE Inf(Sign(a.n) * Sign(b.n)))
    ELSE Rat(a.n * b.n, a.d * b.d)

Div(a, b) ==
    IF a.k = "nan" \/ b.k = "nan" THEN NaN
    ELSE IF a.k = "inf"
         THEN (IF b.k = "inf" THEN NaN
               ELSE Inf(a.n * (IF b.n < 0 THEN -1 ELSE 1)))
    ELSE IF b.k = "inf" THEN Num(0)
    ELSE IF b.n = 0
         THEN (IF a.n = 0 THEN NaN ELSE Inf(Sign(a.n)))
    ELSE Rat(a.n * b.d, a.d * b.n)

\* a < b, a <= b, a > b as JavaScript compares numbers: false with a NaN
Lt(a, b) ==
    IF a.k = "nan" \/ b.k = "nan" THEN FALSE
    ELSE IF a.k = "inf" THEN a.n < 0 /\ ~(b.k = "inf" /\ b.n < 0)
    ELSE IF b.k = "inf" THEN b.n > 0
    ELSE a.n * b.d < b.n * a.d

Le(a, b) ==
    IF a.k = "nan" \/ b.k = "nan" THEN FALSE
    ELSE Lt(a, b) \/ a = b

Gt(a, b) == Lt(b, a)

\* Math.floor, Math.ceil and Math.round of a finite number
FloorInt(a) == a.n \div a.d

CeilInt(a) == -((-a.n) \div a.d)

RoundInt(a) == (2 * a.n + a.d) \div (2 * a.d)

-----------------------------------------------------------------------------
(* Math.random, rand, randn                                                *)
(*                                                                         *)
(* Math.random() is an oracle: the value returned to call site `slot` of   *)
(* draw i is fixed by a hidden seed.  Values lie on the grid               *)
(* {0, 1/4, 1/2, 3/4} of [0, 1).  Call sites of one draw: 0 and 1 in       *)
(* sampleFleet, 2 in sampleTrip, 3, 5, 7, ... the successive draws of u1   *)
(* and 4, 6, 8, ... those of u2 in randn.  The five values of draw i are   *)
(* the base-4 digits of i shifted by the seed, so that the draws of a run  *)
(* combine the grid values in every way.                                   *)

Random(seed, i, slot) ==
    LET digit == IF slot < 3 THEN slot ELSE 3 + ((slot - 3) % 2)
        attempt == IF slot < 3 THEN 0 ELSE (slot - 3) \div 2
    IN  Rat(((i \div (4 ^ digit)) + seed + attempt) % 4, 4)

rand(min, max, u) == Add(min, Mul(u, Sub(max, min)))

\* the loop `while (!u) u = Math.random()`: the first non-zero value the
\* oracle returns to the call sites slot, slot + 2, slot + 4, ...
RECURSIVE Redraw(_, _, _)
Redraw(seed, i, slot) ==
    LET u == Random(seed, i, slot)
    IN  IF u.n = 0 THEN Redraw(seed, i, slot + 2) ELSE u

\* randn() is sqrt(-2 ln u1) * cos(2 pi u2); the variate is carried as the
\* pair (u1, u2) that determines it
randn(seed, i) == [u1 |-> Redraw(seed, i, 3), u2 |-> Redraw(seed, i, 4)]

\* exp(sigma * z - sigma^2 / 2) for z = randn() and sigma^2 = ln(1.09), in
\* sixteenths, at the grid points; with u1 = 0 the variate z is +-Infinity
ExpNormal(z) ==
    LET a == z.u1.n
        b == z.u2.n
    IN  IF a = 0 THEN (IF b \in {0, 1} THEN Inf(1) ELSE Num(0))
        ELSE IF b \in {1, 3} THEN Rat(15, 16)
        ELSE IF b = 2 THEN (IF a = 1 THEN Rat(9, 16)
                            ELSE IF a = 2 THEN Rat(11, 16) ELSE Rat(12, 16))
        ELSE (IF a = 1 THEN Rat(25, 16)
              ELSE IF a = 2 THEN Rat(22, 16) ELSE Rat(19, 16))

-----------------------------------------------------------------------------
(* Samplers and the blend *)

sampleFleet(p, seed, i) ==
    LET sfShare == rand(p.sfMin, p.sfMax, Random(seed, i, 0))
        util == rand(p.utilMin, p.utilMax, Random(seed, i, 1))
    IN  Mul(Mul(p.fleetSize, sfShare), util)

sampleTrip(p, seed, i) ==
    IF Le(p.tripsPerDay, Num(0)) THEN Num(0)
    ELSE LET tripsPerCar == rand(p.tpcMin, p.tpcMax, Random(seed, i, 2))
         IN  Div(p.tripsPerDay, tripsPerCar)

\* exp(mu + sigma * randn()) with mu = ln(mean) - sigma2 / 2 is
\* mean * exp(sigma * randn() - sigma2 / 2)
sampleSensorZeroPoint(point, seed, i) ==
    IF ~IsFinite(point) \/ Lt(point, Num(0)) THEN NaN
    ELSE Mul(point, ExpNormal(randn(seed, i)))

sampleSensor(point, seed, i) ==
    IF ~IsFinite(point) \/ Le(point, Num(0)) THEN NaN
    ELSE Mul(point, ExpNormal(randn(seed, i)))

blendSamplesFullRest(f, t, s, sensorWeight) ==
    LET ok == IsFinite(s)
    IN  IF ~ok \/ sensorWeight = Num(0)
        THEN Add(Mul(Rat(1, 2), f), Mul(Rat(1, 2), t))
        ELSE LET rest == Sub(Num(1), sensorWeight)
             IN  Add(Add(Mul(rest, f), Mul(rest, t)), Mul(sensorWeight, s))

blendSamplesUnchecked(f, t, s, sensorWeight) ==
    IF sensorWeight = Num(0)
    THEN Add(Mul(Rat(1, 2), f), Mul(Rat(1, 2), t))
    ELSE LET rest == Div(Sub(Num(1), sensorWeight), Num(2))
         IN  Add(Add(Mul(rest, f), Mul(rest, t)), Mul(sensorWeight, s))

blendSamples(f, t, s, sensorWeight) ==
    LET ok == IsFinite(s)
    IN  IF ~ok \/ sensorWeight = Num(0)
        THEN Add(Mul(Rat(1, 2), f), Mul(Rat(1, 2), t))
        ELSE LET rest == Div(Sub(Num(1), sensorWeight), Num(2))
             IN  Add(Add(Mul(rest, f), Mul(rest, t)), Mul(sensorWeight, s))

-----------------------------------------------------------------------------
(* Summary statistics *)

Range(a) == {a[i] : i \in DOMAIN a}

\* the least element of a non-empty set of finite numbers
Least(S) == CHOOSE v \in S : \A w \in S : Le(v, w)

\* [...a].sort((a, b) => a - b) of an array of finite numbers: the values
\* of S in ascending order, each as often as it occurs in a
RECURSIVE SortValues(_, _)
SortValues(a, S) ==
    IF S = {} THEN << >>
    ELSE LET m == Least(S)
             c == Cardinality({i \in DOMAIN a : a[i] = m})
         IN  [i \in 1..c |-> m] \o SortValues(a, S \ {m})

SortAsc(a) == SortValues(a, Range(a))

\* reduce((s, x) => s + x, 0) over a[lo..hi]
RECURSIVE SumSeq(_, _, _)
SumSeq(a, lo, hi) ==
    IF lo > hi THEN Num(0)
    ELSE IF lo = hi THEN a[lo]
    ELSE LET m == (lo + hi) \div 2
         IN  Add(SumSeq(a, lo, m), SumSeq(a, m + 1, hi))

percentileSwapped(a, p) ==
    LET i == Mul(p, Num(Len(a) - 1))
        lo == FloorInt(i)
        hi == CeilInt(i)
    IN  IF lo = hi THEN a[lo + 1]
        ELSE Add(Mul(a[lo + 1], Sub(i, Num(lo))), Mul(a[hi + 1], Sub(Num(hi), i)))

\* a is sorted ascending and not empty; a[k] of the code is a[k + 1] here
percentile(a, p) ==
    LET i == Mul(p, Num(Len(a) - 1))
        lo == FloorInt(i)
        hi == CeilInt(i)
    IN  IF lo = hi THEN a[lo + 1]
        ELSE Add(Mul(a[lo + 1], Sub(Num(hi), i)), Mul(a[hi + 1], Sub(i, Num(lo))))

summarizeZeroWhenEmpty(arr) ==
    LET a == SelectSeq(arr, IsFinite)
    IN  IF Len(a) = 0 THEN [mean |-> Num(0), p5 |-> Num(0), p95 |-> Num(0)]
        ELSE LET sorted == SortAsc(a)
             IN  [mean |-> Div(SumSeq(sorted, 1, Len(sorted)), Num(Len(sorted))),
                  p5 |-> percentile(sorted, Rat(5, 100)),
                  p95 |-> percentile(sorted, Rat(95, 100))]

summarize(arr) ==
    LET a == SelectSeq(arr, IsFinite)
    IN  IF Len(a) = 0 THEN [mean |-> NaN, p5 |-> NaN, p95 |-> NaN]
        ELSE LET sorted == SortAsc(a)
             IN  [mean |-> Div(SumSeq(sorted, 1, Len(sorted)), Num(Len(sorted))),
                  p5 |-> percentile(sorted, Rat(5, 100)),
                  p95 |-> percentile(sorted, Rat(95, 100))]

-----------------------------------------------------------------------------
(* The Monte Carlo run *)

LoopCountInclusive(samples) ==
    IF IsFinite(samples) /\ samples.n >= 0 THEN FloorInt(samples) + 1 ELSE 0

\* number of iterations of `for (let i = 0; i < samples; i++)`
LoopCount(samples) ==
    IF IsFinite(samples) /\ samples.n > 0 THEN CeilInt(samples) ELSE 0

\* the loop of runMonteCarlo and the object it returns
runDraws(p, seed, sensorPoint) ==
    LET n == LoopCount(p.samples)
        fleet == [j \in 1..n |-> sampleFleet(p, seed, j - 1)]
        trip == [j \in 1..n |-> sampleTrip(p, seed, j - 1)]
        sensor == [j \in 1..n |-> sampleSensor(sensorPoint, seed, j - 1)]
        blend == [j \in 1..n |->
                    blendSamples(fleet[j], trip[j], sensor[j], p.sensorWeight)]
    IN  [entered |-> TRUE,
         p |-> p,
         fleetSamples |-> fleet,
         tripSamples |-> trip,
         sensorSamples |-> sensor,
         blendedSamples |-> blend,
         fleetStats |-> summarize(fleet),
         tripStats |-> summarize(trip),
         sensorStats |-> summarize(sensor),
         blendedStats |-> summarize(blend)]

runMonteCarloDetections(p, seed) == runDraws(p, seed, Num(lastObservedDetections))

runMonteCarlo(p, seed) == runDraws(p, seed, lastSensorCitywideEstimate)

-----------------------------------------------------------------------------
(* Form input handling *)

readInputsErrorNoSamples(f) ==
    IF Le(f.fleetSize, Num(0)) THEN "Fleet size must be > 0."
    ELSE IF Lt(f.sfShareMin, Num(0)) \/ Gt(f.sfShareMax, Num(100))
            \/ Gt(f.sfShareMin, f.sfShareMax) THEN "SF share % invalid."
    ELSE IF Lt(f.utilMin, Num(0)) \/ Gt(f.utilMax, Num(100))
            \/ Gt(f.utilMin, f.utilMax) THEN "Utilization % invalid."
    ELSE IF Le(f.tripsPerCarMin, Num(0)) \/ Lt(f.tripsPerCarMax, f.tripsPerCarMin)
         THEN "Trips/car invalid."
    ELSE IF Lt(f.sensorWeight, Num(0)) \/ Gt(f.sensorWeight, Num(1))
         THEN "Sensor weight must be 0-1."
    ELSE ""

\* the message of the Error readInputs throws, "" when it returns
readInputsError(f) ==
    IF Le(f.fleetSize, Num(0)) THEN "Fleet size must be > 0."
    ELSE IF Lt(f.sfShareMin, Num(0)) \/ Gt(f.sfShareMax, Num(100))
            \/ Gt(f.sfShareMin, f.sfShareMax) THEN "SF share % invalid."
    ELSE IF Lt(f.utilMin, Num(0)) \/ Gt(f.utilMax, Num(100))
            \/ Gt(f.utilMin, f.utilMax) THEN "Utilization % invalid."
    ELSE IF Le(f.tripsPerCarMin, Num(0)) \/ Lt(f.tripsPerCarMax, f.tripsPerCarMin)
         THEN "Trips/car invalid."
    ELSE IF Lt(f.samples, Num(1000)) THEN "Samples must be >= 1000."
    ELSE IF Lt(f.sensorWeight, Num(0)) \/ Gt(f.sensorWeight, Num(1))
         THEN "Sensor weight must be 0-1."
    ELSE ""

readInputs(f) ==
    [fleetSize |-> f.fleetSize,
     sfMin |-> Div(f.sfShareMin, Num(100)),
     sfMax |-> Div(f.sfShareMax, Num(100)),
     utilMin |-> Div(f.utilMin, Num(100)),
     utilMax |-> Div(f.utilMax, Num(100)),
     tripsPerDay |-> f.tripsPerDay,
     tpcMin |-> f.tripsPerCarMin,
     tpcMax |-> f.tripsPerCarMax,
     samples |-> f.samples,
     sensorWeight |-> f.sensorWeight]

-----------------------------------------------------------------------------
(* Result rendering *)

Dash == [k |-> "dash", lo |-> 0, hi |-> 0]

InitialText == [k |-> "initial", lo |-> 0, hi |-> 0]

setTxt(v) ==
    IF IsFinite(v) THEN [k |-> "number", lo |-> RoundInt(v), hi |-> RoundInt(v)]
    ELSE Dash

setRange(stats) ==
    IF ~IsFinite(stats.p5) THEN Dash
    ELSE [k |-> "range", lo |-> RoundInt(stats.p5),
          hi |-> IF IsFinite(stats.p95) THEN RoundInt(stats.p95) ELSE 0]

updateTextResults(r) ==
    [fleetMean |-> setTxt(r.fleetStats.mean),
     fleetRange |-> setRange(r.fleetStats),
     tripMean |-> setTxt(r.tripStats.mean),
     tripRange |-> setRange(r.tripStats),
     sensorMean |-> setTxt(r.sensorStats.mean),
     sensorRange |-> setRange(r.sensorStats),
     blendMean |-> setTxt(r.blendedStats.mean),
     blendRange |-> setRange(r.blendedStats)]

\* x.toFixed(0) of a finite number: the nearest integer, halves away from 0
ToFixed0(a) ==
    IF a.n >= 0 THEN (2 * a.n + a.d) \div (2 * a.d)
    ELSE -((2 * (-a.n) + a.d) \div (2 * a.d))

\* Math.floor(Math.sqrt(n))
FloorSqrt(n) == CHOOSE r \in 0..n : r * r <= n /\ n < (r + 1) * (r + 1)

Min2(a, b) == IF a < b THEN a ELSE b

Max2(a, b) == IF a > b THEN a ELSE b

NoChart == [k |-> "null", labels |-> << >>, data |-> << >>]

\* the chart after drawHistogram(values), chart being the one before
drawHistogram(values, chart) ==
    LET finite == SelectSeq(values, IsFinite)
    IN  IF Len(finite) = 0 THEN chart
        ELSE
        LET V == Range(finite)
            min == Least(V)
            max == CHOOSE v \in V : \A w \in V : Le(w, v)
        IN  IF min = max
            THEN [k |-> "chart", labels |-> <<ToFixed0(min)>>,
                  data |-> <<Len(finite)>>]
            ELSE
            LET n == Min2(40, Max2(10, FloorSqrt(Len(finite))))
                binSize == Div(Sub(max, min), Num(n))
                mid(i) == Add(min, Mul(Add(Num(i), Rat(1, 2)), binSize))
                binOf(x) == Max2(0, Min2(n - 1, FloorInt(Div(Sub(x, min), binSize))))
                idx == [i \in DOMAIN finite |-> binOf(finite[i])] \o << >>
            IN  [k |-> "chart",
                 labels |-> [i \in 1..n |-> ToFixed0(mid(i - 1))],
                 data |-> [i \in 1..n |->
                             Cardinality({j \in DOMAIN idx : idx[j] = i - 1})]]

-----------------------------------------------------------------------------
(* The form submit handler *)

\* the user types the values f into the form
editForm(f) ==
    /\ form' = f
    /\ UNCHANGED <<sensorVars, resultVars, statusMessage, call>>

\* the form is submitted; Math.random is seeded with seed
handleFormSubmit(seed) ==
    /\ LET err == readInputsError(form)
       IN  IF err # ""
           THEN /\ statusMessage' = "Error: " \o err
                /\ UNCHANGED resultVars
           ELSE LET results == runMonteCarlo(readInputs(form), seed)
                IN  /\ lastRun' = results
                    /\ textResults' = updateTextResults(results)
                    /\ histogramChart' =
                           drawHistogram(results.blendedSamples, histogramChart)
                    /\ statusMessage' = "Simulation complete."
    /\ UNCHANGED <<sensorVars, form, call>>

-----------------------------------------------------------------------------
(* Camera sampling *)

MaxCameras == 2

MaxPasses == 1

\* values the coverageFraction input can hold
CoverageValues == {Num(0), Rat(1, 2), Num(1), Rat(3, 2)}

\* what detectWaymoHeuristic returns for an image
DetectionCounts == {0, 1, 2}

storedVars == <<lastObservedDetections, lastObservedCameras,
                lastSensorCitywideEstimate>>

\* loadCameras settles: n usable entries of cameras.json, none on a failure
loadCameras(n) ==
    /\ ~camerasLoaded
    /\ camerasLoaded' = TRUE
    /\ cameras' = [i \in 1..n |-> i]
    /\ UNCHANGED <<sensorSampling, intervalActive, coverageFraction, passes,
                   storedVars, simVars, call>>

\* the user moves the coverageFraction input
setCoverage(c) ==
    /\ coverageFraction' = c
    /\ UNCHANGED <<cameras, camerasLoaded, sensorSampling, intervalActive,
                   passes, storedVars, simVars, call>>

storeSampleScaled(total, used, coverage) ==
    IF used = 0
    THEN /\ lastObservedDetections' = 0
         /\ lastObservedCameras' = 0
         /\ lastSensorCitywideEstimate' = Null
    ELSE /\ lastObservedDetections' = total
         /\ lastObservedCameras' = used
         /\ lastSensorCitywideEstimate' = Mul(Num(total), coverage)

\* the end of sampleAllCameras, after the loop over the cameras
storeSample(total, used, coverage) ==
    IF used = 0
    THEN /\ lastObservedDetections' = 0
         /\ lastObservedCameras' = 0
         /\ lastSensorCitywideEstimate' = Null
    ELSE /\ lastObservedDetections' = total
         /\ lastObservedCameras' = used
         /\ lastSensorCitywideEstimate' = Div(Num(total), coverage)

\* sampleAllCameras up to its first await
sampleAllCameras ==
    LET coverage == coverageFraction
    IN  IF coverage = Num(0) \/ IsNaN(coverage) \/ Le(coverage, Num(0))
           \/ Gt(coverage, Num(1))
        THEN UNCHANGED <<passes, storedVars>>
        ELSE IF Len(cameras) = 0
        THEN /\ storeSample(0, 0, coverage)
             /\ UNCHANGED passes
        ELSE /\ passes' = Append(passes, [cams |-> cameras, i |-> 1, total |-> 0,
                                          used |-> 0, coverage |-> coverage])
             /\ UNCHANGED storedVars

toggleSensorSampling ==
    /\ (~sensorSampling /\ Len(cameras) > 0) => Len(passes) < MaxPasses
    /\ IF ~sensorSampling
       THEN IF Len(cameras) = 0
            THEN UNCHANGED <<sensorSampling, intervalActive, passes, storedVars>>
            ELSE /\ sensorSampling' = TRUE
                 /\ sampleAllCameras
                 /\ intervalActive' = TRUE
       ELSE /\ sensorSampling' = FALSE
            /\ intervalActive' = FALSE
            /\ UNCHANGED <<passes, storedVars>>
    /\ UNCHANGED <<cameras, camerasLoaded, coverageFraction, simVars, call>>

\* the 30 s interval timer fires
timerTick ==
    /\ intervalActive
    /\ Len(passes) < MaxPasses
    /\ sampleAllCameras
    /\ UNCHANGED <<cameras, camerasLoaded, sensorSampling, intervalActive,
                   coverageFraction, simVars, call>>

RemoveAt(q, k) == SubSeq(q, 1, k - 1) \o SubSeq(q, k + 1, Len(q))

\* pass k resumes after its await with the camera's count added (ok) or
\* with the rejection caught
resumePass(k, ok, count) ==
    LET ps == passes[k]
        total == IF ok THEN ps.total + count ELSE ps.total
        used == IF ok THEN ps.used + 1 ELSE ps.used
    IN  IF ps.i < Len(ps.cams)
        THEN /\ passes' = [passes EXCEPT ![k] =
                              [ps EXCEPT !.i = ps.i + 1, !.total = total,
                                         !.used = used]]
             /\ UNCHANGED storedVars
        ELSE /\ passes' = RemoveAt(passes, k)
             /\ storeSample(total, used, ps.coverage)

\* img.onload of the image pass k awaits: detectWaymoHeuristic returns count
imageLoaded(k, count) ==
    /\ k \in DOMAIN passes
    /\ resumePass(k, TRUE, count)
    /\ UNCHANGED <<cameras, camerasLoaded, sensorSampling, intervalActive,
                   coverageFraction, simVars, call>>

\* img.onerror, or detectWaymoHeuristic throws in img.onload
imageRejected(k) ==
    /\ k \in DOMAIN passes
    /\ resumePass(k, FALSE, 0)
    /\ UNCHANGED <<cameras, camerasLoaded, sensorSampling, intervalActive,
                   coverageFraction, simVars, call>>

-----------------------------------------------------------------------------
(* Initial state and specifications *)

NoStats == [mean |-> NaN, p5 |-> NaN, p95 |-> NaN]

\* the form as the page could be filled in
BaseForm ==
    [fleetSize |-> Num(16), sfShareMin |-> Num(50), sfShareMax |-> Num(100),
     utilMin |-> Num(50), utilMax |-> Num(50), tripsPerDay |-> Num(12),
     tripsPerCarMin |-> Num(1), tripsPerCarMax |-> Num(5),
     samples |-> Num(1000), sensorWeight |-> Rat(1, 2)]

NoRun ==
    [entered |-> FALSE, p |-> readInputs(BaseForm),
     fleetSamples |-> << >>, tripSamples |-> << >>, sensorSamples |-> << >>,
     blendedSamples |-> << >>, fleetStats |-> NoStats, tripStats |-> NoStats,
     sensorStats |-> NoStats, blendedStats |-> NoStats]

InitialResults ==
    [fleetMean |-> InitialText, fleetRange |-> InitialText,
     tripMean |-> InitialText, tripRange |-> InitialText,
     sensorMean |-> InitialText, sensorRange |-> InitialText,
     blendMean |-> InitialText, blendRange |-> InitialText]

\* BaseForm with one field changed
FormCases ==
    {BaseForm}
    \cup {[BaseForm EXCEPT !.fleetSize = v] : v \in {Num(0), Num(-1), NaN}}
    \cup {[BaseForm EXCEPT !.sfShareMin = v] : v \in {Num(-10), Num(150)}}
    \cup {[BaseForm EXCEPT !.sfShareMax = v] : v \in {Num(150)}}
    \cup {[BaseForm EXCEPT !.utilMin = v] : v \in {Num(-5), Num(80)}}
    \cup {[BaseForm EXCEPT !.utilMax = v] : v \in {Num(120)}}
    \cup {[BaseForm EXCEPT !.tripsPerDay = v] : v \in {Num(0), Num(-5)}}
    \cup {[BaseForm EXCEPT !.tripsPerCarMin = v] : v \in {Num(0), Num(8)}}
    \cup {[BaseForm EXCEPT !.samples = v] :
             v \in {Num(500), Num(1001), Rat(2001, 2), NaN}}
    \cup {[BaseForm EXCEPT !.sensorWeight = v] :
             v \in {Num(0), Num(1), Rat(3, 2), Rat(-1, 2)}}

PositiveFinite(v) == v.k = "fin" /\ v.n > 0

InUnit(v) == v.k = "fin" /\ v.n >= 0 /\ v.n <= v.d

Within(v, lo, hi) == v.k = "fin" /\ lo * v.d <= v.n /\ v.n <= hi * v.d

\* the constraints of the data model on the values of the form
FormWithinConstraints(f) ==
    /\ PositiveFinite(f.fleetSize)
    /\ Within(f.sfShareMin, 0, 100) /\ Within(f.sfShareMax, 0, 100)
    /\ Le(f.sfShareMin, f.sfShareMax)
    /\ Within(f.utilMin, 0, 100) /\ Within(f.utilMax, 0, 100)
    /\ Le(f.utilMin, f.utilMax)
    /\ f.tripsPerDay.k = "fin" /\ f.tripsPerDay.n >= 0
    /\ PositiveFinite(f.tripsPerCarMin) /\ IsFinite(f.tripsPerCarMax)
    /\ Le(f.tripsPerCarMin, f.tripsPerCarMax)
    /\ IsFinite(f.samples) /\ f.samples.d = 1 /\ f.samples.n >= 1000
    /\ Within(f.sensorWeight, 0, 1)

\* the base form and the forms with one field outside its constraint
FormEdits == {f \in FormCases : f = BaseForm \/ ~FormWithinConstraints(f)}

\* seeds of the Math.random oracle
Seeds == {0, 1}

NoCall == [fn |-> "none", args |-> << >>, arr |-> << >>, out |-> NaN,
           stats |-> NoStats]

InitSensor ==
    /\ cameras = << >>
    /\ camerasLoaded = FALSE
    /\ sensorSampling = FALSE
    /\ intervalActive = FALSE
    /\ coverageFraction \in CoverageValues
    /\ passes = << >>
    /\ lastObservedDetections = 0
    /\ lastObservedCameras = 0
    /\ lastSensorCitywideEstimate = Null

InitResults ==
    /\ lastRun = NoRun
    /\ textResults = InitialResults
    /\ histogramChart = NoChart
    /\ statusMessage = ""
    /\ call = NoCall

Init == InitSensor /\ form = BaseForm /\ InitResults

SensorNext ==
    \/ \E n \in 0..MaxCameras : loadCameras(n)
    \/ \E c \in CoverageValues : setCoverage(c)
    \/ toggleSensorSampling
    \/ timerTick
    \/ \E k \in 1..MaxPasses, count \in DetectionCounts : imageLoaded(k, count)
    \/ \E k \in 1..MaxPasses : imageRejected(k)

FormNext ==
    \/ \E f \in FormCases : editForm(f)
    \/ \E seed \in Seeds : handleFormSubmit(seed)

Next == SensorNext \/ FormNext

\* the whole page
Spec == Init /\ [][Next]_vars

\* camera sampling alone
SpecSensor == Init /\ [][SensorNext]_vars

\* sensor states in which no pass is in flight
IdleSensorStates ==
    {[detections |-> 0, cameras |-> 0, estimate |-> Null],
     [detections |-> 0, cameras |-> 1, estimate |-> Num(0)],
     [detections |-> 2, cameras |-> 2, estimate |-> Num(4)]}

InitIdle ==
    /\ cameras = <<1, 2>>
    /\ camerasLoaded = TRUE
    /\ sensorSampling = FALSE
    /\ intervalActive = FALSE
    /\ coverageFraction = Rat(1, 2)
    /\ passes = << >>
    /\ \E st \in IdleSensorStates :
          /\ lastObservedDetections = st.detections
          /\ lastObservedCameras = st.cameras
          /\ lastSensorCitywideEstimate = st.estimate

\* submits of one filled-in form, after camera sampling has come to rest
InitSim == InitIdle /\ form \in FormCases /\ InitResults

NextSim == \E seed \in Seeds : handleFormSubmit(seed)

SpecSim == InitSim /\ [][NextSim]_vars

\* the form edited and submitted, with camera sampling never started and
\* one seed of the oracle
InitForm ==
    InitSensor /\ coverageFraction = Rat(1, 2) /\ form = BaseForm /\ InitResults

NextForm ==
    \/ \E f \in FormEdits : editForm(f)
    \/ handleFormSubmit(0)

SpecForm == InitForm /\ [][NextForm]_vars

\* submits of one form while one camera is sampled
NextRun ==
    \/ loadCameras(1)
    \/ toggleSensorSampling
    \/ timerTick
    \/ \E k \in 1..MaxPasses, count \in DetectionCounts : imageLoaded(k, count)
    \/ \E k \in 1..MaxPasses : imageRejected(k)
    \/ \E seed \in Seeds : handleFormSubmit(seed)

SpecRun == InitForm /\ [][NextRun]_vars

-----------------------------------------------------------------------------
(* Calls of the pure functions *)

MaxLen == 5

BlendValues == {Num(0), Num(3), Rat(21, 2)}

SensorSampleValues == {NaN, Inf(1), Num(0), Num(4), Rat(7, 2)}

WeightValues == {Num(0), Rat(1, 4), Rat(1, 2), Num(1)}

SensorPoints ==
    {Null, NaN, Inf(1), Num(0), Num(-5), Rat(1, 2), Num(4), Num(1000)}

\* the draws whose oracle values combine the grid values in every way
DrawIndices == 0..(4 ^ 5 - 1)

SummaryValues == {NaN, Inf(1), Num(2), Rat(5, 2), Num(7)}

PercentileValues == {1, 2, 3, 4, 5, 10}

PercentileFractions ==
    {Num(0), Rat(5, 100), Rat(1, 4), Rat(1, 2), Rat(95, 100), Num(1)}

SeqsUpTo(S, n) == UNION {[1..m -> S] : m \in 0..n}

callBlendSamples(f, t, s, w) ==
    /\ call' = [NoCall EXCEPT !.fn = "blendSamples", !.args = <<f, t, s, w>>,
                              !.out = blendSamples(f, t, s, w)]
    /\ UNCHANGED <<sensorVars, simVars>>

callSampleSensor(point, seed, i) ==
    /\ call' = [NoCall EXCEPT !.fn = "sampleSensor",
                              !.args = <<point, Num(seed), Num(i)>>,
                              !.out = sampleSensor(point, seed, i)]
    /\ UNCHANGED <<sensorVars, simVars>>

callSummarize(arr) ==
    /\ call' = [NoCall EXCEPT !.fn = "summarize", !.arr = arr,
                              !.stats = summarize(arr)]
    /\ UNCHANGED <<sensorVars, simVars>>

callPercentile(a, p) ==
    /\ \A i \in 1..(Len(a) - 1) : a[i] <= a[i + 1]
    /\ LET arr == [i \in 1..Len(a) |-> Num(a[i])]
       IN  call' = [NoCall EXCEPT !.fn = "percentile", !.arr = arr,
                                  !.args = <<p>>, !.out = percentile(arr, p)]
    /\ UNCHANGED <<sensorVars, simVars>>

NextFn ==
    \/ /\ call = NoCall
       /\ \E f \in BlendValues, t \in BlendValues, s \in SensorSampleValues,
             w \in WeightValues : callBlendSamples(f, t, s, w)
    \/ /\ call = NoCall
       /\ \E point \in SensorPoints, seed \in Seeds, i \in DrawIndices :
             callSampleSensor(point, seed, i)
    \/ /\ call = NoCall
       /\ \E arr \in SeqsUpTo(SummaryValues, MaxLen) : callSummarize(arr)
    \/ /\ call = NoCall
       /\ \E a \in SeqsUpTo(PercentileValues, MaxLen) \ {<< >>},
             p \in PercentileFractions : callPercentile(a, p)

\* one call of a pure function on each input
SpecFn == InitForm /\ [][NextFn]_vars

-----------------------------------------------------------------------------
(* Properties *)

\* the constraints of the data model on the parameters of a run
ValidParams(p) ==
    /\ PositiveFinite(p.fleetSize)
    /\ InUnit(p.sfMin) /\ InUnit(p.sfMax) /\ Le(p.sfMin, p.sfMax)
    /\ InUnit(p.utilMin) /\ InUnit(p.utilMax) /\ Le(p.utilMin, p.utilMax)
    /\ p.tripsPerDay.k = "fin" /\ p.tripsPerDay.n >= 0
    /\ PositiveFinite(p.tpcMin) /\ IsFinite(p.tpcMax) /\ Le(p.tpcMin, p.tpcMax)
    /\ IsFinite(p.samples) /\ p.samples.d = 1 /\ p.samples.n >= 1000
    /\ InUnit(p.sensorWeight)

\* C1: a run on valid parameters with samples = k returns four sequences of
\* length exactly k, whatever the sensor point estimate is.
C1_FourSequencesOfLengthSamples ==
    (lastRun.entered /\ ValidParams(lastRun.p)) =>
        /\ Len(lastRun.fleetSamples) = lastRun.p.samples.n
        /\ Len(lastRun.tripSamples) = lastRun.p.samples.n
        /\ Len(lastRun.sensorSamples) = lastRun.p.samples.n
        /\ Len(lastRun.blendedSamples) = lastRun.p.samples.n

C1_Witness ==
    /\ lastRun.entered
    /\ ValidParams(lastRun.p)
    /\ lastSensorCitywideEstimate = Null
    /\ lastRun.p.samples = Num(1001)
    /\ Len(lastRun.fleetSamples) = 1001
    /\ Len(lastRun.blendedSamples) = 1001

\* C2: blendSamples returns (fleet + trip) / 2 when the sensor sample is not
\* finite or the weight is 0; otherwise rest*fleet + rest*trip + weight*sensor
\* with rest = (1 - weight) / 2, three coefficients that sum to 1.
C2_BlendIsConvex ==
    call.fn = "blendSamples" =>
        LET f == call.args[1]
            t == call.args[2]
            s == call.args[3]
            w == call.args[4]
            rest == Div(Sub(Num(1), w), Num(2))
        IN  IF s.k # "fin" \/ w = Num(0)
            THEN call.out = Div(Add(f, t), Num(2))
            ELSE /\ Add(Add(rest, rest), w) = Num(1)
                 /\ call.out = Add(Add(Mul(rest, f), Mul(rest, t)), Mul(w, s))

C2_Witness ==
    /\ call.fn = "blendSamples"
    /\ call.args = <<Num(3), Rat(21, 2), NaN, Rat(1, 2)>>
    /\ call.out = Rat(27, 4)

\* the messages readInputs raises
ValidationErrors ==
    {"Error: Fleet size must be > 0.", "Error: SF share % invalid.",
     "Error: Utilization % invalid.", "Error: Trips/car invalid.",
     "Error: Samples must be >= 1000.", "Error: Sensor weight must be 0-1."}

\* no results are updated, and the status only ever turns to an error
SubmitRejected ==
    /\ UNCHANGED <<lastRun, textResults, histogramChart>>
    /\ statusMessage' # statusMessage => statusMessage' \in ValidationErrors

\* C3 as stated: with any field of the form outside its constraint, a submit
\* raises a validation error and updates no result.
C3_AnyFieldOutsideConstraintRejected ==
    [][~FormWithinConstraints(form) /\ form' = form => SubmitRejected]_vars

\* a comparison of readInputs rejects the form
ComparisonFails(f) ==
    \/ Le(f.fleetSize, Num(0))
    \/ Lt(f.sfShareMin, Num(0)) \/ Gt(f.sfShareMax, Num(100))
    \/ Gt(f.sfShareMin, f.sfShareMax)
    \/ Lt(f.utilMin, Num(0)) \/ Gt(f.utilMax, Num(100))
    \/ Gt(f.utilMin, f.utilMax)
    \/ Le(f.tripsPerCarMin, Num(0)) \/ Lt(f.tripsPerCarMax, f.tripsPerCarMin)
    \/ Lt(f.samples, Num(1000))
    \/ Lt(f.sensorWeight, Num(0)) \/ Gt(f.sensorWeight, Num(1))

NamedRejects ==
    {[BaseForm EXCEPT !.fleetSize = Num(0)],
     [BaseForm EXCEPT !.sfShareMin = Num(150)],
     [BaseForm EXCEPT !.samples = Num(500)],
     [BaseForm EXCEPT !.sensorWeight = Rat(3, 2)]}

\* C3 as amended: with a numeric field that fails one of the comparisons of
\* readInputs (fleetSize <= 0; a share or utilization bound below 0 or above
\* 100, or min > max; tripsPerCarMin <= 0 or tripsPerCarMax below it;
\* samples < 1000; sensorWeight below 0 or above 1), a submit raises a
\* validation error and updates no result; fleetSize = 0, sfShareMin >
\* sfShareMax, samples = 500 and sensorWeight = 1.5 are among these.
C3_FailedComparisonRejected ==
    [][/\ \A f \in NamedRejects : ComparisonFails(f)
       /\ ComparisonFails(form) /\ form' = form => SubmitRejected]_vars

C3_Witness ==
    /\ form = [BaseForm EXCEPT !.samples = Num(500)]
    /\ statusMessage = "Error: Samples must be >= 1000."
    /\ lastRun.entered
    /\ textResults # InitialResults

\* C4: sampleSensor returns the non-finite sentinel for a point that is not a
\* finite positive number (null, NaN, infinite, 0, negative), the same for
\* each of them, and a finite positive value for a finite positive point.
C4_SensorSentinel ==
    call.fn = "sampleSensor" =>
        IF PositiveFinite(call.args[1])
        THEN PositiveFinite(call.out)
        ELSE call.out = NaN

C4_Witness ==
    /\ call.fn = "sampleSensor"
    /\ call.args[1] = Num(1000)
    /\ PositiveFinite(call.out)

\* C5: on valid parameters every element of the blended sequence of a run is
\* finite, for every sensor state and every sensorWeight in [0, 1].
C5_BlendedAlwaysFinite ==
    (lastRun.entered /\ ValidParams(lastRun.p)) =>
        \A j \in DOMAIN lastRun.blendedSamples :
            lastRun.blendedSamples[j].k = "fin"

C5_Witness ==
    /\ lastRun.entered
    /\ ValidParams(lastRun.p)
    /\ lastSensorCitywideEstimate = Null
    /\ lastRun.p.sensorWeight = Rat(1, 2)
    /\ Len(lastRun.blendedSamples) = 1000
    /\ lastRun.sensorSamples[1] = NaN
    /\ lastRun.blendedSamples[1].k = "fin"

RECURSIVE Total(_)
Total(q) == IF q = << >> THEN Num(0) ELSE Add(Head(q), Total(Tail(q)))

IsFiniteEntry(x) == x.k = "fin"

\* C6: summarize uses the finite entries only: with none, mean, p5 and p95
\* are undefined (NaN, rendered as a dash, never 0); with some, all three are
\* finite, the mean is their mean, p5 and p95 lie between their least and
\* greatest, and the entries that are not finite change nothing; when the
\* finite entries all equal v, mean = p5 = p95 = v.
C6_SummaryOfFiniteEntries ==
    call.fn = "summarize" =>
        LET fin == SelectSeq(call.arr, IsFiniteEntry)
            st == call.stats
        IN  IF fin = << >>
            THEN /\ st = [mean |-> NaN, p5 |-> NaN, p95 |-> NaN]
                 /\ setTxt(st.mean) = Dash /\ setRange(st) = Dash
                 /\ setTxt(Num(0)) # Dash
            ELSE /\ st.mean.k = "fin" /\ st.p5.k = "fin" /\ st.p95.k = "fin"
                 /\ Mul(st.mean, Num(Len(fin))) = Total(fin)
                 /\ \E i \in DOMAIN fin : Le(fin[i], st.p5)
                 /\ Le(st.p5, st.p95)
                 /\ \E i \in DOMAIN fin : Le(st.p95, fin[i])
                 /\ st = summarize(fin)
                 /\ \A v \in SummaryValues :
                        (\A i \in DOMAIN fin : fin[i] = v) =>
                            st = [mean |-> v, p5 |-> v, p95 |-> v]

C6_Witness ==
    /\ call.fn = "summarize"
    /\ call.arr = <<Num(7), NaN, Num(7), Num(7)>>
    /\ call.stats = [mean |-> Num(7), p5 |-> Num(7), p95 |-> Num(7)]

\* C7: percentile(a, p) of an ascending non-empty array of length m is the
\* linear interpolation at idx = p * (m - 1) between the order statistics
\* around it; percentile([10], 0.05) = 10, percentile([1,2,3,4,5], 0.5) = 3,
\* percentile([1,2], 0.25) = 1.25.
C7_LinearInterpolation ==
    call.fn = "percentile" =>
        LET a == call.arr
            p == call.args[1]
            m == Len(a)
            idx == Mul(p, Num(m - 1))
            lo == CHOOSE k \in 0..(m - 1) :
                     Le(Num(k), idx) /\ Lt(idx, Num(k + 1))
            hi == CHOOSE k \in 0..(m - 1) :
                     Lt(Num(k - 1), idx) /\ Le(idx, Num(k))
        IN  /\ call.out =
                 Add(a[lo + 1], Mul(Sub(idx, Num(lo)), Sub(a[hi + 1], a[lo + 1])))
            /\ (a = <<Num(10)>> /\ p = Rat(1, 20)) => call.out = Num(10)
            /\ (a = <<Num(1), Num(2), Num(3), Num(4), Num(5)>> /\ p = Rat(1, 2))
                  => call.out = Num(3)
            /\ (a = <<Num(1), Num(2)>> /\ p = Rat(1, 4)) => call.out = Rat(5, 4)

C7_Witness ==
    /\ call.fn = "percentile"
    /\ call.arr = <<Num(1), Num(2)>>
    /\ call.args = <<Rat(1, 4)>>
    /\ call.out = Rat(5, 4)

ValidCoverage(c) == c.k = "fin" /\ c.n > 0 /\ c.n <= c.d

\* C8 as stated: the stored citywide estimate is null or a finite positive
\* number, the summed detections divided by a coverage fraction in (0, 1].
C8_EstimateNullOrPositive ==
    \/ lastSensorCitywideEstimate = Null
    \/ /\ PositiveFinite(lastSensorCitywideEstimate)
       /\ \E c \in CoverageValues :
             /\ ValidCoverage(c)
             /\ Mul(lastSensorCitywideEstimate, c) = Num(lastObservedDetections)

\* C8 as amended: the stored citywide estimate is null or a finite number
\* >= 0, the summed detections divided by a coverage fraction in (0, 1]; it is
\* 0 when the cameras that answered detected nothing.
C8_EstimateNullOrNonNegative ==
    \/ lastSensorCitywideEstimate = Null /\ lastObservedCameras = 0
    \/ /\ lastSensorCitywideEstimate.k = "fin"
       /\ lastSensorCitywideEstimate.n >= 0
       /\ lastObservedCameras > 0
       /\ \E c \in CoverageValues :
             /\ ValidCoverage(c)
             /\ Mul(lastSensorCitywideEstimate, c) = Num(lastObservedDetections)

C8_Witness ==
    /\ lastSensorCitywideEstimate = Num(0)
    /\ lastObservedCameras = 2
    /\ lastObservedDetections = 0

\* the values of exp(sigma * z - sigma^2 / 2) for finite z
LogNormalFactors ==
    {Rat(9, 16), Rat(11, 16), Rat(12, 16), Rat(15, 16), Rat(19, 16),
     Rat(22, 16), Rat(25, 16)}

\* C9: every draw of a run uses the value lastSensorCitywideEstimate has when
\* the run starts: with no usable estimate every sensor sample is the
\* sentinel, and with one every sensor sample is that estimate times a
\* log-normal factor; camera passes in flight change nothing of it.
C9_RunUsesEstimateAtStart ==
    [][lastRun' # lastRun =>
          /\ lastSensorCitywideEstimate' = lastSensorCitywideEstimate
          /\ passes' = passes
          /\ \A j \in DOMAIN lastRun'.sensorSamples :
                IF PositiveFinite(lastSensorCitywideEstimate)
                THEN /\ lastRun'.sensorSamples[j].k = "fin"
                     /\ Div(lastRun'.sensorSamples[j], lastSensorCitywideEstimate)
                           \in LogNormalFactors
                ELSE lastRun'.sensorSamples[j] = NaN]_vars

C9_Witness ==
    /\ lastRun.entered
    /\ Len(lastRun.sensorSamples) = 1000
    /\ lastRun.sensorSamples[1].k = "fin"
    /\ Len(passes) > 0
    /\ lastSensorCitywideEstimate = Null

\* C10: while camera sampling is stopped, no step changes the stored sensor
\* state.
C10_StoppedKeepsSensorState ==
    [][(~sensorSampling /\ ~sensorSampling') =>
          UNCHANGED <<lastObservedDetections, lastObservedCameras,
                      lastSensorCitywideEstimate>>]_vars

====
